---- MODULE Spec2Model ----
(***************************************************************************)
(* Serial-over-CAN transport of src/generic/canbus.c: the transmit buffer  *)
(* and its chunker task, the receive buffer and its reader task, and the   *)
(* "admin" (node enumeration) command handlers.                            *)
(*                                                                         *)
(* C arrays are functions over 0..size-1.  A CAN frame is a record         *)
(* [id, data] whose data is a sequence of 0..8 bytes; data[k+1] is the C   *)
(* data[k].  The CAN driver, the scheduler and the command codec are not   *)
(* part of canbus.c: they appear as the environment (the pending frame     *)
(* queue hw_rx, the filter hw_filter, the send outcomes drawn by the task  *)
(* actions, the wake flags, command_encode_and_frame and                   *)
(* command_find_and_dispatch).                                             *)
(***************************************************************************)
EXTENDS Integers, Sequences, FiniteSets, TLC

VARIABLES
    canbus_assigned_id, \* uint32_t canbus_assigned_id
    canbus_uuid,        \* uint8_t canbus_uuid[CANBUS_UUID_LEN]
    canbus_tx_wake,     \* struct task_wake canbus_tx_wake
    transmit_buf,       \* uint8_t transmit_buf[96]
    transmit_pos,       \* uint8_t transmit_pos
    transmit_max,       \* uint8_t transmit_max
    canbus_rx_wake,     \* struct task_wake canbus_rx_wake
    receive_buf,        \* uint8_t receive_buf[192]
    receive_pos,        \* uint8_t receive_pos
    hw_rx,              \* driver: frames pending for canbus_read, oldest first
    hw_filter,          \* driver: address last given to canbus_set_filter
    hw_tx,              \* driver: outcomes of its next sends of admin responses
    host,               \* environment: the byte stream the host sends as data frames
    host_pos,           \* environment: bytes of host already put into frames
    uuid_set,           \* canbus_set_uuid has run (scheduler: init before tasks)
    is_shutdown,        \* scheduler: shutdown() has been called
    rebooted,           \* driver: canbus_reboot() has been called
    wire,               \* history: the bytes of the data frames canbus_send accepted
    offered,            \* history: bytes handed to console_sendf, in order
    dropped,            \* history: console_sendf dropped a message
    discarded,          \* history: the chunker discarded unsent bytes
    events,             \* the external calls made by the last step, in order
    last                \* the last step: its operation, inputs and entry values

vars == <<canbus_assigned_id, canbus_uuid, canbus_tx_wake, transmit_buf,
          transmit_pos, transmit_max, canbus_rx_wake, receive_buf, receive_pos,
          hw_rx, hw_filter, hw_tx, host, host_pos, uuid_set, is_shutdown,
          rebooted, wire, offered, dropped, discarded, events, last>>

txvars == <<canbus_tx_wake, transmit_buf, transmit_pos, transmit_max>>
rxvars == <<canbus_rx_wake, receive_buf, receive_pos>>
idvars == <<canbus_assigned_id, hw_filter, is_shutdown, rebooted>>
hostvars == <<host, host_pos>>
txhist == <<wire, offered, dropped, discarded>>

(***************************************************************************)
(* Program constants                                                       *)
(***************************************************************************)
TRANSMIT_BUF_SIZE == 96
RECEIVE_BUF_SIZE == 192
CAN_DATA_MAX == 8
CANBUS_UUID_LEN == 6
CANBUS_ID_ADMIN == 1008
CANBUS_ID_ADMIN_RESP == 1009
CANBUS_CMD_QUERY_UNASSIGNED == 0
CANBUS_CMD_QUERY == 1
CANBUS_CMD_SET_CANID == 2
CANBUS_CMD_REBOOT == 3
CANBUS_RESP_NEED_CANID == 32
CANBUS_RESP_HAVE_CANID == 33
CANID_BASE == 256

(***************************************************************************)
(* Bounds of the model                                                     *)
(***************************************************************************)
MaxOffered == 120     \* bytes handed to console_sendf in a behaviour
MaxPending == 3       \* data frames pending in the driver at once
MaxAdminPending == 1  \* frames pending at once where admin frames arrive
FillLen == 200        \* bytes of the host's long stream

(***************************************************************************)
(* Integer widths and array helpers                                        *)
(***************************************************************************)
U8(x) == x % 256
\* uint32_t arithmetic.  TLC's integers are 32-bit signed, so 2^32 cannot be
\* written: a negative result wraps to x + 2^31 here (x + 2^32 in C), in both
\* cases a value above every size and address it is compared with.
U32(x) == IF x < 0 THEN (x + 2147483647) + 1 ELSE x

Flatten(frames) ==
    LET RECURSIVE F(_)
        F(s) == IF s = <<>> THEN <<>> ELSE Head(s).data \o F(Tail(s))
    IN F(frames)

\* the first n elements of seq, all of it when it is shorter
Prefix(seq, n) == SubSeq(seq, 1, IF n < Len(seq) THEN n ELSE Len(seq))

\* buf[from .. from+n-1] as a sequence
Slice(buf, from, n) == [k \in 1..n |-> buf[from + k - 1]]

\* memmove(&buf[dst], &buf[src], n)
MemMove(buf, dst, src, n) ==
    [i \in DOMAIN buf |->
        IF i >= dst /\ i < dst + n THEN buf[i - dst + src] ELSE buf[i]]

\* memcpy(&buf[dst], bytes, Len(bytes))
MemCpy(buf, dst, bytes) ==
    [i \in DOMAIN buf |->
        IF i >= dst /\ i < dst + Len(bytes) THEN bytes[i - dst + 1] ELSE buf[i]]

(***************************************************************************)
(* Data transmission over CAN                                              *)
(***************************************************************************)

\* The CAN driver's canbus_send: the byte count when the frame is accepted,
\* otherwise the failure value the hardware reports (0 or negative).
canbus_send(accepted, len, failret) == IF accepted THEN len ELSE failret

\* line 43: now = avail > 8 ? 8 : avail
TxChunkLen(avail) == IF avail > CAN_DATA_MAX THEN CAN_DATA_MAX ELSE avail

\* TxStop taking a return value of 0 for an accepted send
TxStop_NegativeOnly(ret) == ret < 0

\* line 47: the chunker stops on ret <= 0
TxStop(ret) == ret <= 0

\* TxUnassigned sending whatever the address
TxUnassigned_Never(id) == FALSE

\* line 37: no address is assigned
TxUnassigned(id) == id = 0

\* lines 42-50: the send loop.  The hardware accepts the next nacc sends and
\* answers failret to those after.  Result: the final tpos and the frames
\* the hardware accepted, in order.
RECURSIVE TxLoop(_, _, _, _, _, _, _)
TxLoop(buf, id, tpos, tmax, nacc, failret, sent) ==
    LET avail == tmax - tpos
        now == TxChunkLen(avail)
    IN  IF avail <= 0
        THEN [tpos |-> tpos, sent |-> sent]
        ELSE LET accepted == nacc > 0
                 ret == canbus_send(accepted, now, failret)
                 frame == [call |-> "send", id |-> U32(id + 1),
                           data |-> Slice(buf, tpos, now)]
             IN  IF TxStop(ret)
                 THEN [tpos |-> tpos, sent |-> sent]
                 ELSE TxLoop(buf, id, U32(tpos + now), tmax,
                             IF accepted THEN nacc - 1 ELSE 0, failret,
                             IF accepted THEN Append(sent, frame) ELSE sent)

\* lines 25-29: the driver's transmit interrupt notifies the chunker
canbus_notify_tx ==
    /\ uuid_set /\ ~rebooted
    /\ canbus_tx_wake' = TRUE
    /\ events' = <<>>
    /\ last' = [op |-> "notify_tx"]
    /\ UNCHANGED <<canbus_assigned_id, canbus_uuid, transmit_buf, transmit_pos,
                   transmit_max, rxvars, hw_rx, hw_filter, hw_tx, hostvars,
                   uuid_set, is_shutdown, rebooted, txhist>>

\* lines 31-52
canbus_tx_task(nacc, failret) ==
    /\ uuid_set /\ ~rebooted
    /\ last' = [op |-> "tx", woken |-> canbus_tx_wake]
    /\ canbus_tx_wake' = FALSE
    /\ IF ~canbus_tx_wake
       THEN /\ events' = <<>>
            /\ UNCHANGED <<transmit_buf, transmit_pos, transmit_max, wire,
                           discarded>>
       ELSE IF TxUnassigned(canbus_assigned_id)
       THEN /\ transmit_pos' = 0
            /\ transmit_max' = 0
            /\ events' = <<>>
            /\ discarded' = (discarded \/ transmit_pos < transmit_max)
            /\ UNCHANGED <<transmit_buf, wire>>
       ELSE LET r == TxLoop(transmit_buf, canbus_assigned_id, transmit_pos,
                            transmit_max, nacc, failret, <<>>)
            IN  /\ transmit_pos' = U8(r.tpos)
                /\ events' = r.sent
                /\ wire' = wire \o Flatten(r.sent)
                /\ UNCHANGED <<transmit_buf, transmit_max, discarded>>
    /\ UNCHANGED <<canbus_assigned_id, canbus_uuid, rxvars, hw_rx, hw_filter,
                   hw_tx, hostvars, uuid_set, is_shutdown, rebooted, offered,
                   dropped>>

\* SendfReset without the reset of a drained buffer
SendfReset_Never(tpos, tmax) == FALSE

\* lines 61-62: a drained buffer restarts at offset 0
SendfReset(tpos, tmax) == tpos >= tmax

\* SendfNoRoom without the check of the room behind transmit_max
SendfNoRoom_Ignored(tmax, max_size) == FALSE

\* line 64: the message does not fit behind transmit_max
SendfNoRoom(tmax, max_size) ==
    U32(tmax + max_size) > TRANSMIT_BUF_SIZE

\* SendfNoSpace not counting the room the sent bytes leave
SendfNoSpace_Unmoved(tpos, tmax, max_size) ==
    U32(tmax + max_size) > TRANSMIT_BUF_SIZE

\* line 65: the message does not fit even after moving the unsent bytes down
SendfNoSpace(tpos, tmax, max_size) ==
    U32(tmax + max_size - tpos) > TRANSMIT_BUF_SIZE

\* SendfMove resetting the cursors without moving the bytes
SendfMove_NoCopy(buf, tpos, n) == buf

\* lines 69-70: the unsent bytes move down to offset 0
SendfMove(buf, tpos, n) == MemMove(buf, 0, tpos, n)

\* lines 56-81.  max_size is ce->max_size; msg is what
\* command_encode_and_frame writes (msglen = Len(msg) <= max_size).
console_sendf(max_size, msg) ==
    /\ uuid_set /\ ~rebooted
    /\ Len(msg) <= max_size
    /\ last' = [op |-> "sendf", max_size |-> max_size, msg |-> msg,
                pre_pos |-> transmit_pos, pre_max |-> transmit_max]
    /\ events' = <<>>
    /\ offered' = offered \o msg
    /\ LET reset == SendfReset(transmit_pos, transmit_max)
           tpos0 == IF reset THEN 0 ELSE transmit_pos
           tmax0 == IF reset THEN 0 ELSE transmit_max
           move == SendfNoRoom(tmax0, max_size)
           drop == move /\ SendfNoSpace(tpos0, tmax0, max_size)
           tmax1 == IF move THEN U32(tmax0 - tpos0) ELSE tmax0
           tpos1 == IF move THEN 0 ELSE tpos0
           buf1 == IF move THEN SendfMove(transmit_buf, tpos0, tmax1)
                   ELSE transmit_buf
       IN  IF drop
           THEN /\ transmit_pos' = tpos0
                /\ transmit_max' = tmax0
                /\ dropped' = TRUE
                /\ UNCHANGED <<transmit_buf, canbus_tx_wake>>
           ELSE /\ transmit_buf' = MemCpy(buf1, tmax1, msg)
                /\ transmit_pos' = tpos1
                /\ transmit_max' = U8(tmax1 + Len(msg))
                /\ canbus_tx_wake' = TRUE
                /\ UNCHANGED dropped
    /\ UNCHANGED <<canbus_assigned_id, canbus_uuid, rxvars, hw_rx, hw_filter,
                   hw_tx, hostvars, uuid_set, is_shutdown, rebooted, wire,
                   discarded>>

(***************************************************************************)
(* CAN "admin" command handling.  The handlers run inside canbus_rx_task;  *)
(* they work on a record s of the values a run of the task may change:     *)
(*   id     canbus_assigned_id        filter  the driver's filter address  *)
(*   rbuf, rpos  receive_buf, receive_pos                                  *)
(*   hwtx   the outcomes of the driver's next sends of admin responses     *)
(*   ev     the external calls made so far                                 *)
(*   stop   "none", or the terminal call that ended the run                *)
(***************************************************************************)

\* lines 97-101.  data has len bytes, so data[2..7] are the C data[1..6].
can_check_uuid(uuid, len, data) ==
    len >= 7 /\ SubSeq(data, 2, 1 + CANBUS_UUID_LEN) = uuid

\* can_encode_id without the shift
can_encode_id_NoShift(assigned_id) ==
    IF assigned_id = 0 THEN 0 ELSE U32(assigned_id - CANID_BASE)

\* lines 104-110, on the value of canbus_assigned_id
can_encode_id(assigned_id) ==
    IF assigned_id = 0 THEN 0 ELSE U32(assigned_id - CANID_BASE) \div 2

\* can_decode_id without the base of the address range
can_decode_id_NoBase(encoded_id) == U32(encoded_id * 2)

\* lines 111-115
can_decode_id(encoded_id) == U32(encoded_id * 2 + CANID_BASE)

\* lines 122-127: the response frame
UuidResponse(assigned_id, uuid) ==
    <<IF assigned_id # 0 THEN CANBUS_RESP_HAVE_CANID
                         ELSE CANBUS_RESP_NEED_CANID>>
    \o uuid \o <<U8(can_encode_id(assigned_id))>>

\* line 131: the retry ends on ret >= 0
SendUuidDone(ret) == ret >= 0

\* lines 129-133: the send is repeated until SendUuidDone.  The driver
\* answers the outcomes s.hwtx in turn, then accepts.  A call the driver
\* accepted is recorded as "send", any other call as "send_refused".
RECURSIVE SendUuidLoop(_, _)
SendUuidLoop(s, data) ==
    LET accepted == s.hwtx = <<>>
        ret == canbus_send(accepted, Len(data),
                           IF accepted THEN 0 ELSE Head(s.hwtx))
        t == [s EXCEPT !.ev = Append(@, [call |-> IF accepted THEN "send"
                                                  ELSE "send_refused",
                                         id |-> CANBUS_ID_ADMIN_RESP,
                                         data |-> data]),
                       !.hwtx = IF accepted THEN <<>> ELSE Tail(@)]
    IN  IF SendUuidDone(ret) THEN t ELSE SendUuidLoop(t, data)

\* lines 118-134
can_send_uuid(s, uuid) == SendUuidLoop(s, UuidResponse(s.id, uuid))

\* canbus_set_filter(id), of the driver
canbus_set_filter(s, id) ==
    [s EXCEPT !.filter = id,
              !.ev = Append(@, [call |-> "set_filter", id |-> id])]

\* shutdown(msg), of the scheduler: does not return to the handler
shutdown(s) ==
    [s EXCEPT !.stop = "shutdown", !.ev = Append(@, [call |-> "shutdown"])]

\* canbus_reboot(), of the driver: does not return
canbus_reboot(s) ==
    [s EXCEPT !.stop = "reboot", !.ev = Append(@, [call |-> "reboot"])]

\* can_process_query_unassigned answering whatever the address
can_process_query_unassigned_Always(s, uuid, len, data) == can_send_uuid(s, uuid)

\* lines 136-141
can_process_query_unassigned(s, uuid, len, data) ==
    IF s.id = 0 THEN can_send_uuid(s, uuid) ELSE s

\* lines 143-148
can_process_query(s, uuid, len, data) ==
    IF can_check_uuid(uuid, len, data) THEN can_send_uuid(s, uuid) ELSE s

\* SetCanidAssign leaving the filter as it was
SetCanidAssign_NoFilter(s, uuid, newid) ==
    can_send_uuid(IF newid # s.id THEN [s EXCEPT !.id = newid] ELSE s, uuid)

\* lines 157-161: the UUID is this chip's
SetCanidAssign(s, uuid, newid) ==
    can_send_uuid(IF newid # s.id
                  THEN canbus_set_filter([s EXCEPT !.id = newid], newid)
                  ELSE s, uuid)

\* SetCanidCollision returning instead of shutting down
SetCanidCollision_NoShutdown(s, uuid) ==
    can_send_uuid(canbus_set_filter([s EXCEPT !.id = 0], 0), uuid)

\* SetCanidCollision leaving the filter on the address given up
SetCanidCollision_KeepFilter(s, uuid) ==
    shutdown(can_send_uuid([s EXCEPT !.id = 0], uuid))

\* lines 162-167: another chip is given the address this chip holds
SetCanidCollision(s, uuid) ==
    shutdown(can_send_uuid(canbus_set_filter([s EXCEPT !.id = 0], 0), uuid))

\* lines 150-168
can_process_set_canid(s, uuid, len, data) ==
    IF len < 8 THEN s
    ELSE LET newid == can_decode_id(data[8])
         IN  IF can_check_uuid(uuid, len, data)
             THEN SetCanidAssign(s, uuid, newid)
             ELSE IF newid = s.id THEN SetCanidCollision(s, uuid) ELSE s

\* can_process_reboot without the UUID check
can_process_reboot_NoCheck(s, uuid, len, data) == canbus_reboot(s)

\* lines 170-175
can_process_reboot(s, uuid, len, data) ==
    IF can_check_uuid(uuid, len, data) THEN canbus_reboot(s) ELSE s

\* lines 178-197
can_process(s, uuid, len, data) ==
    IF len = 0 THEN s
    ELSE CASE data[1] = CANBUS_CMD_QUERY_UNASSIGNED ->
                  can_process_query_unassigned(s, uuid, len, data)
           [] data[1] = CANBUS_CMD_QUERY -> can_process_query(s, uuid, len, data)
           [] data[1] = CANBUS_CMD_SET_CANID ->
                  can_process_set_canid(s, uuid, len, data)
           [] data[1] = CANBUS_CMD_REBOOT -> can_process_reboot(s, uuid, len, data)
           [] OTHER -> s

(***************************************************************************)
(* CAN packet reading                                                      *)
(***************************************************************************)

\* RxFit without the clamp
RxFit_All(rpos, len) == len

\* lines 219-220: the bytes of the frame that still fit
RxFit(rpos, len) ==
    IF len > RECEIVE_BUF_SIZE - rpos THEN RECEIVE_BUF_SIZE - rpos ELSE len

\* lines 215-223
can_process_data(s, len, data) ==
    LET rpos == s.rpos
        n == RxFit(rpos, len)
    IN  [s EXCEPT !.rbuf = [i \in DOMAIN s.rbuf |->
                               IF i >= rpos /\ i < rpos + n
                               THEN data[i - rpos + 1] ELSE s.rbuf[i]],
                  !.wrote = @ \cup (rpos .. rpos + n - 1),
                  !.rpos = U8(rpos + n)]

\* RxIsData without the test for a nonzero identifier
RxIsData_NoZeroCheck(s, f) == f.id = s.id

\* lines 238-241: one frame read by canbus_read
RxIsData(s, f) == f.id # 0 /\ f.id = s.id

RxFrame(s, uuid, f) ==
    IF RxIsData(s, f) THEN can_process_data(s, Len(f.data), f.data)
    ELSE IF f.id = CANBUS_ID_ADMIN THEN can_process(s, uuid, Len(f.data), f.data)
    ELSE s

\* RxDrain reading one frame per run
RxDrain_One(s, uuid, frames) ==
    IF frames = <<>> THEN [s EXCEPT !.rest = frames]
    ELSE [RxFrame(s, uuid, Head(frames)) EXCEPT !.rest = Tail(frames)]

\* lines 232-242: frames are read until canbus_read reports none, or until a
\* handler does not return.  Result: s with the frames left in the driver.
RECURSIVE RxDrain(_, _, _)
RxDrain(s, uuid, frames) ==
    IF frames = <<>> \/ s.stop # "none"
    THEN [s EXCEPT !.rest = frames]
    ELSE RxDrain(RxFrame(s, uuid, Head(frames)), uuid, Tail(frames))

\* The command codec's command_find_and_dispatch(buf, n, &pop_count): a
\* message starts with its own length; a complete one is handed to the
\* dispatcher and its bytes are consumed.  ret = 0: no complete message.
command_find_and_dispatch(buf, n) ==
    IF n >= 1 /\ buf[0] >= 1 /\ n >= buf[0]
    THEN [ret |-> 1, pop_count |-> buf[0], msg |-> Slice(buf, 0, buf[0])]
    ELSE [ret |-> 0, pop_count |-> 0, msg |-> <<>>]

\* lines 249-254: the bytes behind the consumed message move to offset 0
RxCompact(buf, pop_count, needcopy) == MemMove(buf, 0, pop_count, needcopy)

\* RxResignal leaving the remaining bytes to the next frame's wake
RxResignal_Never(needcopy) == FALSE

\* lines 250-253: bytes remain behind the message: the task notifies itself
RxResignal(needcopy) == needcopy # 0

\* lines 225-257
canbus_rx_task ==
    /\ uuid_set /\ ~rebooted
    /\ last' = [op |-> "rx", woken |-> canbus_rx_wake, frames |-> hw_rx,
                pre_id |-> canbus_assigned_id, pre_rpos |-> receive_pos]
    /\ IF ~canbus_rx_wake
       THEN /\ events' = <<>>
            /\ UNCHANGED <<canbus_assigned_id, canbus_tx_wake, rxvars, hw_rx,
                           hw_filter, hw_tx, is_shutdown, rebooted>>
       ELSE LET s0 == [id |-> canbus_assigned_id, filter |-> hw_filter,
                       hwtx |-> hw_tx,
                       rbuf |-> receive_buf, rpos |-> receive_pos,
                       wrote |-> {}, ev |-> <<>>, stop |-> "none",
                       rest |-> <<>>]
                s == RxDrain(s0, canbus_uuid, hw_rx)
                d == command_find_and_dispatch(s.rbuf, s.rpos)
                needcopy == s.rpos - d.pop_count
            IN  /\ canbus_assigned_id' = s.id
                /\ hw_filter' = s.filter
                /\ hw_tx' = s.hwtx
                /\ hw_rx' = s.rest
                /\ rebooted' = (s.stop = "reboot")
                /\ is_shutdown' = (is_shutdown \/ s.stop = "shutdown")
                /\ IF s.stop # "none"
                   THEN \* the run ended in the handler; shutdown() runs
                        \* canbus_shutdown (lines 275-280)
                        /\ receive_buf' = s.rbuf
                        /\ receive_pos' = s.rpos
                        /\ canbus_rx_wake' = (s.stop = "shutdown")
                        /\ canbus_tx_wake' =
                               (canbus_tx_wake \/ s.stop = "shutdown")
                        /\ events' = s.ev
                   ELSE /\ events' = s.ev \o
                               <<[call |-> "find_and_dispatch", n |-> s.rpos,
                                  wrote |-> s.wrote,
                                  buf |-> Slice(s.rbuf, 0,
                                                IF s.rpos > RECEIVE_BUF_SIZE
                                                THEN RECEIVE_BUF_SIZE
                                                ELSE s.rpos)]>> \o
                               (IF d.ret # 0
                                THEN <<[call |-> "dispatch", data |-> d.msg]>>
                                ELSE <<>>)
                        /\ receive_buf' =
                               IF d.ret # 0 /\ needcopy # 0
                               THEN RxCompact(s.rbuf, d.pop_count, needcopy)
                               ELSE s.rbuf
                        /\ receive_pos' =
                               U8(IF d.ret # 0 THEN needcopy ELSE s.rpos)
                        /\ canbus_rx_wake' =
                               (d.ret # 0 /\ RxResignal(needcopy))
                        /\ UNCHANGED canbus_tx_wake
    /\ UNCHANGED <<canbus_uuid, transmit_buf, transmit_pos, transmit_max,
                   hostvars, uuid_set, txhist>>

(***************************************************************************)
(* Setup                                                                   *)
(***************************************************************************)

\* lines 265-273
canbus_set_uuid(uuid) ==
    /\ ~uuid_set
    /\ uuid_set' = TRUE
    /\ canbus_uuid' = uuid
    /\ canbus_rx_wake' = TRUE
    /\ LET s == can_send_uuid([id |-> canbus_assigned_id, hwtx |-> hw_tx,
                               ev |-> <<>>], uuid)
       IN  /\ events' = s.ev
           /\ hw_tx' = s.hwtx
    /\ last' = [op |-> "set_uuid"]
    /\ UNCHANGED <<canbus_assigned_id, txvars, receive_buf, receive_pos, hw_rx,
                   hw_filter, hostvars, is_shutdown, rebooted, txhist>>

(***************************************************************************)
(* The environment: the bus and the host                                   *)
(***************************************************************************)

\* The driver's receive interrupt: a frame becomes pending for canbus_read
\* and the receive task is notified (canbus_notify_rx, lines 206-210).
HwReceive(f, bound) ==
    /\ uuid_set /\ ~rebooted
    /\ Len(hw_rx) < bound
    /\ hw_rx' = Append(hw_rx, f)
    /\ canbus_rx_wake' = TRUE
    /\ events' = <<>>
    /\ last' = [op |-> "hw", frame |-> f]
    /\ UNCHANGED <<canbus_assigned_id, canbus_uuid, txvars, receive_buf,
                   receive_pos, hw_filter, hw_tx, host, uuid_set, is_shutdown,
                   rebooted, txhist>>

\* The driver's transmit mailbox is busy: its next sends of admin responses
\* have the outcomes outs (0: rejected, negative: error), later ones are
\* accepted.
HwTxBusy(outs) ==
    /\ ~rebooted
    /\ hw_tx = <<>>
    /\ hw_tx' = outs
    /\ events' = <<>>
    /\ last' = [op |-> "hw_busy"]
    /\ UNCHANGED <<canbus_assigned_id, canbus_uuid, txvars, rxvars, hw_rx,
                   hw_filter, hostvars, uuid_set, is_shutdown, rebooted, txhist>>

\* An admin frame arrives.
HwReceiveAdmin(f) ==
    /\ HwReceive(f, MaxAdminPending)
    /\ UNCHANGED host_pos

\* The host sends the next n bytes of its stream (fewer at the end of the
\* stream) as one data frame to address id.
HwReceiveData(id, n, bound) ==
    LET m == IF n > Len(host) - host_pos THEN Len(host) - host_pos ELSE n
    IN  /\ host_pos < Len(host)
        /\ HwReceive([id |-> id, data |-> SubSeq(host, host_pos + 1, host_pos + m)],
                     bound)
        /\ host_pos' = host_pos + m

SelfUuid == <<17, 34, 51, 68, 85, 102>>
\* another chip's UUID, differing from SelfUuid in its last byte only
OtherUuid == <<17, 34, 51, 68, 85, 103>>

\* An admin frame of len bytes: command, UUID, encoded address
AdminFrame(cmd, uuid, b7, len) ==
    [id |-> CANBUS_ID_ADMIN, data |-> SubSeq(<<cmd>> \o uuid \o <<b7>>, 1, len)]

\* What command_encode_and_frame writes for the next message of msglen
\* bytes: every byte offered so far is distinct.
EncodedMsg(msglen) == [k \in 1..msglen |-> U8(Len(offered) + k)]

\* The state before canbus_set_uuid: zeroed statics; the host has the byte
\* stream h to send.
InitWith(h) ==
    /\ canbus_assigned_id = 0
    /\ canbus_uuid = [k \in 1..CANBUS_UUID_LEN |-> 0]
    /\ canbus_tx_wake = FALSE
    /\ transmit_buf = [i \in 0..(TRANSMIT_BUF_SIZE - 1) |-> 0]
    /\ transmit_pos = 0
    /\ transmit_max = 0
    /\ canbus_rx_wake = FALSE
    /\ receive_buf = [i \in 0..(RECEIVE_BUF_SIZE - 1) |-> 0]
    /\ receive_pos = 0
    /\ hw_rx = <<>>
    /\ hw_filter = 0
    /\ hw_tx = <<>>
    /\ host = h
    /\ host_pos = 0
    /\ uuid_set = FALSE
    /\ is_shutdown = FALSE
    /\ rebooted = FALSE
    /\ wire = <<>>
    /\ offered = <<>>
    /\ dropped = FALSE
    /\ discarded = FALSE
    /\ events = <<>>
    /\ last = [op |-> "init"]

Init == InitWith(<<>>)

(***************************************************************************)
(* SpecTx: the transmit pipeline, with the admin frames that assign and     *)
(* re-assign the address.                                                  *)
(***************************************************************************)

\* <<max_size, msglen>> of the encoders that call console_sendf
TxEncoders == {<<24, 19>>, <<64, 40>>}

TxAdminFrames ==
    {AdminFrame(CANBUS_CMD_SET_CANID, SelfUuid, 5, 8),
     AdminFrame(CANBUS_CMD_SET_CANID, SelfUuid, 6, 8)}

\* how many sends the hardware accepts in one run of the chunker: none, one,
\* two, or all of a full buffer
TxAccepts == {0, 1, 2, TRANSMIT_BUF_SIZE \div CAN_DATA_MAX}

TxSendf ==
    \E e \in TxEncoders :
        /\ Len(offered) + e[2] <= MaxOffered
        /\ console_sendf(e[1], EncodedMsg(e[2]))

TxRun ==
    \E nacc \in TxAccepts, failret \in {0, -1} :
        canbus_tx_task(nacc, failret)

TxAdmin == \E f \in TxAdminFrames : HwReceiveAdmin(f)

SetUuid == canbus_set_uuid(SelfUuid)

NextTx == SetUuid \/ TxSendf \/ TxRun \/ TxAdmin \/ canbus_rx_task

SpecTx == Init /\ [][NextTx]_vars

\* the unsent region [transmit_pos, transmit_max) of the transmit buffer
Unsent == Slice(transmit_buf, transmit_pos, transmit_max - transmit_pos)

\* C1 as claimed: whenever at most 96 bytes were handed to console_sendf,
\* the bytes sent so far followed by the bytes still unsent are exactly the
\* bytes handed over, in order: none is lost, duplicated or reordered.
C1_FifoAsClaimed ==
    Len(offered) <= TRANSMIT_BUF_SIZE => wire \o Unsent = offered

\* C1 (amended): as long as console_sendf dropped no message and the
\* chunker discarded no unsent byte (a woken run without an address), the
\* bytes of the accepted frames followed by the unsent region are the bytes
\* handed to console_sendf, in order, whatever their total; and every frame
\* a run of the chunker sends carries 1 to 8 bytes.
C1_Fifo ==
    /\ (~dropped /\ ~discarded) => wire \o Unsent = offered
    /\ last.op = "tx" =>
           \A i \in 1..Len(events) :
               /\ events[i].call = "send"
               /\ Len(events[i].data) \in 1..CAN_DATA_MAX

\* C1 witness: more than the buffer's capacity has gone through it without
\* loss, the last run of the chunker sending a full and a shorter frame.
C1_Witness ==
    /\ ~dropped /\ ~discarded
    /\ Len(offered) > TRANSMIT_BUF_SIZE
    /\ wire = offered
    /\ last.op = "tx" /\ Len(events) >= 2
    /\ \E i, j \in 1..Len(events) :
           Len(events[i].data) = CAN_DATA_MAX /\ Len(events[j].data) < CAN_DATA_MAX

\* C8: console_sendf entered with transmit_pos = transmit_max leaves
\* transmit_pos = 0, transmit_max = the encoded length, and the message at
\* offset 0 of the buffer.
C8_ResetOnDrained ==
    (last.op = "sendf" /\ last.pre_pos = last.pre_max) =>
        /\ transmit_pos = 0
        /\ transmit_max = Len(last.msg)
        /\ Slice(transmit_buf, 0, Len(last.msg)) = last.msg

\* C8 witness: the buffer was drained at a nonzero offset when the message
\* was enqueued.
C8_Witness ==
    /\ last.op = "sendf" /\ last.pre_pos = last.pre_max /\ last.pre_pos > 0
    /\ transmit_pos = 0 /\ transmit_max = Len(last.msg) /\ transmit_max > 0

\* C9: a console_sendf step accepts the message exactly when the unsent
\* bytes plus max_size fit in the 96 bytes.  Accepted: the unsent region
\* becomes the old unsent bytes followed by the message (at offset 0 when
\* there was no room behind transmit_max) and the chunker is notified.
\* Dropped: the unsent bytes are the same, nothing is reported, the wake
\* flag of the chunker is as it was.
C9_SpacePolicy ==
    [][last'.op = "sendf" =>
          IF (transmit_max - transmit_pos) + last'.max_size <= TRANSMIT_BUF_SIZE
          THEN /\ Unsent' = Unsent \o last'.msg
               /\ canbus_tx_wake'
               /\ dropped' = dropped
               /\ (transmit_max + last'.max_size > TRANSMIT_BUF_SIZE
                      => transmit_pos' = 0)
          ELSE /\ Unsent' = Unsent
               /\ dropped'
               /\ canbus_tx_wake' = canbus_tx_wake
               /\ events' = <<>>
               /\ is_shutdown' = is_shutdown]_vars

\* C9 witness: a message was dropped earlier, and the last console_sendf
\* moved unsent bytes down to make room for its message.
C9_Witness ==
    /\ dropped
    /\ last.op = "sendf"
    /\ last.pre_pos > 0 /\ last.pre_pos < last.pre_max
    /\ last.pre_max + last.max_size > TRANSMIT_BUF_SIZE
    /\ transmit_pos = 0
    /\ transmit_max = (last.pre_max - last.pre_pos) + Len(last.msg)

\* C10: the cursors of the transmit buffer are 8-bit values with
\* 0 <= transmit_pos <= transmit_max <= 96.
C10_TxCursors ==
    /\ transmit_pos \in 0..255
    /\ transmit_max \in 0..255
    /\ transmit_pos <= transmit_max
    /\ transmit_max <= TRANSMIT_BUF_SIZE

\* C10 witness: a partly sent buffer that is filled to its last bytes.
C10_Witness ==
    /\ 0 < transmit_pos /\ transmit_pos < transmit_max
    /\ transmit_max + 19 > TRANSMIT_BUF_SIZE
    /\ canbus_assigned_id # 0

(***************************************************************************)
(* SpecRx: the receive pipeline.  The host's stream is two messages (11    *)
(* and 3 bytes); it reaches the chip in data frames of the lengths         *)
(* RxChunks, before and after the address is assigned.                     *)
(***************************************************************************)
RxMessages == <<11, 101, 102, 103, 104, 105, 106, 107, 108, 109, 110>> \o
              <<3, 201, 202>>

RxChunks == {0, 3, 4, CAN_DATA_MAX}

RxAssign == HwReceiveAdmin(AdminFrame(CANBUS_CMD_SET_CANID, SelfUuid, 5, 8))

RxData ==
    \E n \in RxChunks : HwReceiveData(can_decode_id(5), n, MaxPending)

InitRx == InitWith(RxMessages)

NextRx == SetUuid \/ RxAssign \/ RxData \/ canbus_rx_task

SpecRx == InitRx /\ [][NextRx]_vars

(***************************************************************************)
(* SpecRxFill: the receive buffer filled to its capacity.  The host sends  *)
(* one message longer than the buffer to the chip once it has its address. *)
(***************************************************************************)
RxLongMessage == [k \in 1..FillLen |-> IF k = 1 THEN U8(FillLen) ELSE U8(k)]

FillChunks == {0, 5, CAN_DATA_MAX}

FillData ==
    /\ canbus_assigned_id # 0
    /\ \E n \in FillChunks : HwReceiveData(canbus_assigned_id, n, MaxPending)

InitRxFill == InitWith(RxLongMessage)

NextRxFill == SetUuid \/ RxAssign \/ FillData \/ canbus_rx_task

SpecRxFill == InitRxFill /\ [][NextRxFill]_vars

\* the receive task runs woken, with an address, and every pending frame is
\* a data frame for that address
RxDataRun ==
    /\ last'.op = "rx" /\ last'.woken
    /\ canbus_assigned_id # 0
    /\ \A i \in 1..Len(hw_rx) : hw_rx[i].id = canbus_assigned_id

\* the receive buffer's bytes followed by the bytes of the pending frames
RxArrived == Slice(receive_buf, 0, receive_pos) \o Flatten(hw_rx)

\* C2: a woken run of canbus_rx_task whose pending frames are all data
\* frames for the chip's address reads them all, then calls the boundary
\* detector once, on the buffered bytes followed by the frames' bytes in
\* arrival order; when the buffer was empty and the frames hold exactly one
\* message, the dispatcher is called once, with those bytes, and the
\* buffer is empty again.
C2_Reassembly ==
    [][(RxDataRun /\ hw_rx # <<>>) =>
          /\ hw_rx' = <<>>
          /\ Cardinality({i \in 1..Len(events') :
                             events'[i].call = "find_and_dispatch"}) = 1
          /\ events'[1].call = "find_and_dispatch"
          /\ Len(RxArrived) <= RECEIVE_BUF_SIZE => events'[1].buf = RxArrived
          /\ (/\ receive_pos = 0
              /\ Flatten(hw_rx) # <<>>
              /\ Flatten(hw_rx)[1] = Len(Flatten(hw_rx)))
             => /\ Len(events') = 2
                /\ events'[2] = [call |-> "dispatch", data |-> Flatten(hw_rx)]
                /\ receive_pos' = 0]_vars

\* C2 witness: an 11-byte message arrived in three non-empty frames, all
\* pending in one wake, and was dispatched by that run.
C2_Witness ==
    /\ last.op = "rx" /\ last.woken /\ last.pre_rpos = 0 /\ last.pre_id # 0
    /\ Len(last.frames) = 3
    /\ \A i \in 1..3 : /\ last.frames[i].id = last.pre_id
                       /\ last.frames[i].data # <<>>
    /\ Len(Flatten(last.frames)) = 11
    /\ Len(events) = 2
    /\ events[2] = [call |-> "dispatch", data |-> Flatten(last.frames)]
    /\ receive_pos = 0

\* C3: receive_pos stays within 0..192; no run of the receive task writes
\* receive_buf at an index of 192 or more; and the bytes handed to the
\* boundary detector after data frames were read are the first 192 of the
\* buffered bytes followed by the frames' bytes: what does not fit is
\* dropped and what was buffered is kept.
C3_ReceiveBound ==
    /\ [](/\ receive_pos \in 0..RECEIVE_BUF_SIZE
          /\ \A i \in 1..Len(events) :
                 events[i].call = "find_and_dispatch" =>
                     /\ events[i].wrote \subseteq 0..(RECEIVE_BUF_SIZE - 1)
                     /\ events[i].n <= RECEIVE_BUF_SIZE)
    /\ [][RxDataRun =>
             /\ events'[1].call = "find_and_dispatch"
             /\ events'[1].buf = Prefix(RxArrived, RECEIVE_BUF_SIZE)]_vars

\* C3 witness: a frame arrived that did not fit entirely; the buffer is full.
C3_Witness ==
    /\ last.op = "rx" /\ last.woken
    /\ last.pre_rpos < RECEIVE_BUF_SIZE
    /\ last.pre_rpos + Len(Flatten(last.frames)) > RECEIVE_BUF_SIZE
    /\ receive_pos = RECEIVE_BUF_SIZE

(***************************************************************************)
(* SpecAdmin: the admin protocol.  Admin frames of every command, with     *)
(* this chip's and another chip's UUID, complete and cut short, arrive     *)
(* while both buffers hold bytes: the first 3 bytes of a 7-byte message    *)
(* from the host, and one message of 3 bytes to transmit.                  *)
(***************************************************************************)
AdminFrames ==
    {AdminFrame(c, u, b, 8) :
        c \in {CANBUS_CMD_QUERY_UNASSIGNED, CANBUS_CMD_QUERY,
               CANBUS_CMD_SET_CANID, CANBUS_CMD_REBOOT, 4},
        u \in {SelfUuid, OtherUuid}, b \in {0, 5}}
    \cup {AdminFrame(c, SelfUuid, 5, n) :
             c \in {CANBUS_CMD_QUERY_UNASSIGNED, CANBUS_CMD_QUERY,
                    CANBUS_CMD_SET_CANID, CANBUS_CMD_REBOOT},
             n \in {0, 1, 6, 7}}

AdminArrives == \E f \in AdminFrames : HwReceiveAdmin(f)

AdminData == HwReceiveData(can_decode_id(5), CAN_DATA_MAX, MaxAdminPending)

AdminSendf == offered = <<>> /\ console_sendf(8, EncodedMsg(3))

InitAdmin == InitWith(<<7, 1, 2>>)

NextAdmin == SetUuid \/ AdminArrives \/ AdminData \/ AdminSendf \/ canbus_rx_task

SpecAdmin == InitAdmin /\ [][NextAdmin]_vars

(***************************************************************************)
(* SpecIds: every address the chip can be given.  The host sends SET_CANID *)
(* with this chip's UUID, one frame at a time: any encoded address to a    *)
(* chip that has none, the next encoded address to a chip that has one.    *)
(***************************************************************************)
IdsAssign ==
    \E b \in 0..255 :
        /\ hw_rx = <<>>
        /\ \/ canbus_assigned_id = 0
           \/ b = can_encode_id(canbus_assigned_id) + 1
        /\ HwReceiveAdmin(AdminFrame(CANBUS_CMD_SET_CANID, SelfUuid, b, 8))

NextIds == SetUuid \/ IdsAssign \/ canbus_rx_task

SpecIds == Init /\ [][NextIds]_vars

\* the calls to the driver and the scheduler among the calls of a step
IsBusCall(e) == e.call \in {"set_filter", "send", "shutdown", "reboot"}
BusCalls(ev) == SelectSeq(ev, IsBusCall)

\* a complete SET_CANID admin frame
IsSetCanid(f) ==
    /\ f.id = CANBUS_ID_ADMIN
    /\ Len(f.data) >= 8
    /\ f.data[1] = CANBUS_CMD_SET_CANID

\* the last step was a woken run of canbus_rx_task with one pending frame
OneFrameRun == last.op = "rx" /\ last.woken /\ Len(last.frames) = 1

\* C4: a run of the receive task on one SET_CANID frame with this chip's
\* UUID and an address other than the one held sets canbus_assigned_id and
\* the filter to the decoded address and sends one response
\* [33, UUID, byte 7], whatever address was held before.
C4_SetCanid ==
    (/\ OneFrameRun
     /\ IsSetCanid(last.frames[1])
     /\ SubSeq(last.frames[1].data, 2, 7) = canbus_uuid
     /\ can_decode_id(last.frames[1].data[8]) # last.pre_id)
    => /\ canbus_assigned_id = can_decode_id(last.frames[1].data[8])
       /\ hw_filter = can_decode_id(last.frames[1].data[8])
       /\ BusCalls(events) =
              <<[call |-> "set_filter",
                 id |-> can_decode_id(last.frames[1].data[8])],
                [call |-> "send", id |-> CANBUS_ID_ADMIN_RESP,
                 data |-> <<CANBUS_RESP_HAVE_CANID>> \o canbus_uuid \o
                          <<last.frames[1].data[8]>>]>>

\* C4 witness: the chip held another address and was given a new one.
C4_Witness ==
    /\ OneFrameRun
    /\ IsSetCanid(last.frames[1])
    /\ SubSeq(last.frames[1].data, 2, 7) = canbus_uuid
    /\ last.pre_id # 0
    /\ canbus_assigned_id # last.pre_id
    /\ canbus_assigned_id = can_decode_id(last.frames[1].data[8])
    /\ Len(BusCalls(events)) = 2

\* C5: a run of the receive task on one SET_CANID frame with another
\* chip's UUID and the address this chip holds clears canbus_assigned_id,
\* then sets the filter to 0, then sends one response [32, UUID, 0], then
\* calls shutdown, once; nothing else is called.
C5_Collision ==
    (/\ OneFrameRun
     /\ IsSetCanid(last.frames[1])
     /\ SubSeq(last.frames[1].data, 2, 7) # canbus_uuid
     /\ can_decode_id(last.frames[1].data[8]) = last.pre_id)
    => /\ canbus_assigned_id = 0
       /\ hw_filter = 0
       /\ is_shutdown
       /\ events =
              <<[call |-> "set_filter", id |-> 0],
                [call |-> "send", id |-> CANBUS_ID_ADMIN_RESP,
                 data |-> <<CANBUS_RESP_NEED_CANID>> \o canbus_uuid \o <<0>>],
                [call |-> "shutdown"]>>

\* C5 witness: the chip held the address another chip was given.
C5_Witness ==
    /\ OneFrameRun
    /\ IsSetCanid(last.frames[1])
    /\ SubSeq(last.frames[1].data, 2, 7) # canbus_uuid
    /\ last.pre_id # 0
    /\ can_decode_id(last.frames[1].data[8]) = last.pre_id
    /\ canbus_assigned_id = 0
    /\ Len(events) = 3 /\ events[3].call = "shutdown"

\* C6: a run of the receive task on one QUERY_UNASSIGNED frame sends the
\* response [32, UUID, 0] when canbus_assigned_id is 0 and calls nothing
\* when the chip holds an address; the address, the filter, the transmit
\* buffer and its cursors are unchanged, and the boundary detector is
\* given the receive buffer as it was.
C6_QueryUnassigned ==
    [][(/\ last'.op = "rx" /\ last'.woken
        /\ Len(hw_rx) = 1
        /\ hw_rx[1].id = CANBUS_ID_ADMIN
        /\ Len(hw_rx[1].data) >= 1
        /\ hw_rx[1].data[1] = CANBUS_CMD_QUERY_UNASSIGNED)
       => /\ BusCalls(events') =
                 IF canbus_assigned_id = 0
                 THEN <<[call |-> "send", id |-> CANBUS_ID_ADMIN_RESP,
                         data |-> <<CANBUS_RESP_NEED_CANID>> \o canbus_uuid
                                  \o <<0>>]>>
                 ELSE <<>>
          /\ UNCHANGED <<canbus_assigned_id, hw_filter, transmit_buf,
                         transmit_pos, transmit_max>>
          /\ \E i \in 1..Len(events') :
                 /\ events'[i].call = "find_and_dispatch"
                 /\ events'[i].wrote = {}
                 /\ events'[i].buf = Slice(receive_buf, 0, receive_pos)]_vars

\* C6 witness: the chip holds an address and bytes in both buffers; the
\* query was read and nothing was sent.
C6_Witness ==
    /\ OneFrameRun
    /\ last.frames[1].id = CANBUS_ID_ADMIN
    /\ Len(last.frames[1].data) >= 1
    /\ last.frames[1].data[1] = CANBUS_CMD_QUERY_UNASSIGNED
    /\ last.pre_id # 0
    /\ BusCalls(events) = <<>>
    /\ receive_pos > 0 /\ transmit_max > 0

\* C7: decoding the encoded form of the address the chip holds gives that
\* address back, also through the one byte the encoded form has on the wire.
C7_RoundTrip ==
    canbus_assigned_id # 0 =>
        /\ can_decode_id(can_encode_id(canbus_assigned_id)) = canbus_assigned_id
        /\ can_decode_id(U8(can_encode_id(canbus_assigned_id)))
               = canbus_assigned_id

\* C7 witness: the chip holds the highest address, that of encoded byte 255.
C7_Witness ==
    /\ canbus_assigned_id = 766
    /\ last.op = "rx" /\ last.pre_id # 0

(***************************************************************************)
(* SpecAddr: the address changes while both pipelines hold bytes.  The     *)
(* host sends SET_CANID for two addresses and data frames to both and to   *)
(* identifier 0, several frames pending in one wake; console_sendf is      *)
(* called before and after the chip has an address, and the message it is  *)
(* given tells which: StaleMsg without an address, FreshMsg with one.      *)
(***************************************************************************)
MaxAddrPending == 2   \* frames pending in the driver at once
MaxAddrOffered == 6   \* bytes handed to console_sendf in a behaviour

StaleByte == 238
StaleMsg == <<StaleByte, StaleByte, StaleByte>>
FreshMsg == <<1, 2, 3>>

AddrFrames ==
    {AdminFrame(CANBUS_CMD_SET_CANID, SelfUuid, 5, 8),
     AdminFrame(CANBUS_CMD_SET_CANID, SelfUuid, 6, 8)}

AddrDataIds == {0, can_decode_id(5), can_decode_id(6)}

AddrAdmin ==
    \E f \in AddrFrames : HwReceive(f, MaxAddrPending) /\ UNCHANGED host_pos

AddrData == \E id \in AddrDataIds : HwReceiveData(id, 2, MaxAddrPending)

AddrSendf ==
    /\ Len(offered) + 3 <= MaxAddrOffered
    /\ console_sendf(8, IF canbus_assigned_id = 0 THEN StaleMsg ELSE FreshMsg)

AddrRun ==
    \E nacc \in {0, 1}, failret \in {0, -1} : canbus_tx_task(nacc, failret)

\* the first bytes of a 9-byte message: the detector finds nothing complete
InitAddr == InitWith(<<9, 1, 2, 3>>)

NextAddr ==
    SetUuid \/ AddrAdmin \/ AddrData \/ AddrSendf \/ AddrRun \/ canbus_rx_task

SpecAddr == InitAddr /\ [][NextAddr]_vars

\* The address the chip holds after frame f when it held id before it: a
\* complete SET_CANID with this chip's UUID gives it the decoded address.
AddrNext(id, f) ==
    IF IsSetCanid(f) /\ SubSeq(f.data, 2, 7) = canbus_uuid
    THEN can_decode_id(f.data[8]) ELSE id

\* The bytes the frames add to the receive buffer when the chip holds id
\* before the first of them: those of the frames whose identifier is
\* nonzero and is the address held when the frame is read.
RECURSIVE Taken(_, _)
Taken(id, frames) ==
    IF frames = <<>> THEN <<>>
    ELSE (IF Head(frames).id # 0 /\ Head(frames).id = id
          THEN Head(frames).data ELSE <<>>)
         \o Taken(AddrNext(id, Head(frames)), Tail(frames))

\* C11: every frame a run of canbus_tx_task sends carries the identifier
\* canbus_assigned_id + 1 of the nonzero address the chip holds during the
\* run; and a woken run of canbus_rx_task adds to the receive buffer the
\* bytes of exactly the frames whose identifier is nonzero and equal to
\* the address held when the frame is read, SET_CANID frames read earlier
\* in the same run counted.
C11_Addressing ==
    [][/\ last'.op = "tx" =>
              /\ canbus_assigned_id' = canbus_assigned_id
              /\ \A i \in 1..Len(events') :
                     /\ events'[i].call = "send"
                     /\ canbus_assigned_id # 0
                     /\ events'[i].id = canbus_assigned_id + 1
       /\ (last'.op = "rx" /\ last'.woken) =>
              \E i \in 1..Len(events') :
                  /\ events'[i].call = "find_and_dispatch"
                  /\ events'[i].buf = Slice(receive_buf, 0, receive_pos)
                                      \o Taken(canbus_assigned_id, hw_rx)]_vars

\* C11 witness: in one wake the chip was moved to a new address and then
\* read a data frame for the new address, whose bytes it buffered.
C11_Witness ==
    /\ last.op = "rx" /\ last.woken /\ Len(last.frames) = 2
    /\ last.pre_id # 0
    /\ IsSetCanid(last.frames[1])
    /\ can_decode_id(last.frames[1].data[8]) # last.pre_id
    /\ last.frames[2].id = canbus_assigned_id
    /\ last.frames[2].data # <<>>
    /\ receive_pos = last.pre_rpos + Len(last.frames[2].data)
    /\ wire # <<>>

\* C15: a woken run of canbus_tx_task while canbus_assigned_id is 0 calls
\* canbus_send not once and leaves transmit_pos = transmit_max = 0; a run
\* without a pending wake calls nothing and leaves the buffer, its cursors,
\* the wake flag and the address as they were.
C15_TxUnassigned ==
    [][last'.op = "tx" =>
          /\ (canbus_tx_wake /\ canbus_assigned_id = 0) =>
                 /\ events' = <<>>
                 /\ wire' = wire
                 /\ transmit_pos' = 0
                 /\ transmit_max' = 0
          /\ ~canbus_tx_wake =>
                 /\ events' = <<>>
                 /\ UNCHANGED <<canbus_assigned_id, txvars, rxvars, hw_rx,
                                hw_filter, wire, offered>>]_vars

\* C15 witness: bytes were handed over, none was ever sent, and the last
\* run of the chunker, woken without an address, left the buffer empty.
C15_Witness ==
    /\ last.op = "tx" /\ last.woken
    /\ canbus_assigned_id = 0
    /\ discarded
    /\ offered # <<>> /\ wire = <<>>
    /\ transmit_pos = 0 /\ transmit_max = 0

\* C20 as claimed: no byte handed to console_sendf while
\* canbus_assigned_id was 0 is ever in a frame the driver accepted.
C20_NoStaleData == \A i \in 1..Len(wire) : wire[i] # StaleByte

\* an admin frame that is empty, has a command code outside 0..3, is a QUERY
\* or REBOOT too short for the UUID, or is a SET_CANID of less than 8 bytes
Malformed(f) ==
    /\ f.id = CANBUS_ID_ADMIN
    /\ \/ Len(f.data) = 0
       \/ /\ Len(f.data) >= 1
          /\ \/ f.data[1] \notin {CANBUS_CMD_QUERY_UNASSIGNED, CANBUS_CMD_QUERY,
                                  CANBUS_CMD_SET_CANID, CANBUS_CMD_REBOOT}
             \/ /\ f.data[1] \in {CANBUS_CMD_QUERY, CANBUS_CMD_REBOOT}
                /\ Len(f.data) < 1 + CANBUS_UUID_LEN
             \/ /\ f.data[1] = CANBUS_CMD_SET_CANID
                /\ Len(f.data) < 8

\* C12: a woken run of canbus_rx_task whose pending frames are all
\* malformed admin frames makes no call to the driver or the scheduler (no
\* response, no filter change, no reboot, no shutdown) and leaves
\* canbus_assigned_id, the filter, both buffers and their cursors as they
\* were; the boundary detector is given the receive buffer unchanged.
C12_MalformedIgnored ==
    [][(/\ last'.op = "rx" /\ last'.woken
        /\ hw_rx # <<>>
        /\ \A k \in 1..Len(hw_rx) : Malformed(hw_rx[k]))
       => /\ hw_rx' = <<>>
          /\ events' = <<[call |-> "find_and_dispatch", n |-> receive_pos,
                          wrote |-> {},
                          buf |-> Slice(receive_buf, 0, receive_pos)]>>
          /\ UNCHANGED <<canbus_assigned_id, hw_filter, is_shutdown, rebooted,
                         transmit_buf, transmit_pos, transmit_max,
                         canbus_tx_wake, receive_buf, receive_pos>>]_vars

\* C12 witness: the chip holds an address and bytes in both buffers; a
\* SET_CANID frame of 7 bytes with its UUID was read and nothing was called.
C12_Witness ==
    /\ OneFrameRun
    /\ last.frames[1].id = CANBUS_ID_ADMIN
    /\ Len(last.frames[1].data) = 7
    /\ last.frames[1].data[1] = CANBUS_CMD_SET_CANID
    /\ SubSeq(last.frames[1].data, 2, 7) = canbus_uuid
    /\ canbus_assigned_id # 0
    /\ Len(events) = 1
    /\ receive_pos > 0 /\ transmit_max > 0

\* the address held after the first k of the frames, held id before them
RECURSIVE AddrAt(_, _, _)
AddrAt(id, frames, k) ==
    IF k = 0 THEN id ELSE AddrNext(AddrAt(id, frames, k - 1), frames[k])

\* one of the frames is a SET_CANID with another chip's UUID for the
\* nonzero address this chip holds when the frame is read
CollisionIn(id, frames) ==
    \E k \in 1..Len(frames) :
        /\ IsSetCanid(frames[k])
        /\ SubSeq(frames[k].data, 2, 7) # canbus_uuid
        /\ AddrAt(id, frames, k - 1) # 0
        /\ can_decode_id(frames[k].data[8]) = AddrAt(id, frames, k - 1)

\* one of the frames is a REBOOT with this chip's UUID
RebootIn(frames) ==
    \E k \in 1..Len(frames) :
        /\ frames[k].id = CANBUS_ID_ADMIN
        /\ Len(frames[k].data) >= 1 + CANBUS_UUID_LEN
        /\ frames[k].data[1] = CANBUS_CMD_REBOOT
        /\ SubSeq(frames[k].data, 2, 7) = canbus_uuid

\* C13 as claimed: the device stops running (shutdown or reboot) only in a
\* run of the receive task that reads a SET_CANID frame with another
\* chip's UUID for the nonzero address the device holds.
C13_OnlyCollisionTerminates ==
    [][((is_shutdown' /\ ~is_shutdown) \/ (rebooted' /\ ~rebooted))
       => (last'.op = "rx" /\ CollisionIn(canbus_assigned_id, hw_rx))]_vars

\* C13 (amended): shutdown is called only in a run of the receive task
\* that reads a SET_CANID frame with another chip's UUID for the nonzero
\* address the device holds; the device reboots only in a run that reads a
\* REBOOT frame with its own UUID; a run entered with canbus_assigned_id 0
\* whose frames are all SET_CANID frames with another chip's UUID calls
\* neither.
C13_ShutdownOnlyByCollision ==
    [][/\ (is_shutdown' /\ ~is_shutdown)
          => (last'.op = "rx" /\ CollisionIn(canbus_assigned_id, hw_rx))
       /\ (rebooted' /\ ~rebooted) => (last'.op = "rx" /\ RebootIn(hw_rx))
       /\ (/\ last'.op = "rx"
           /\ canbus_assigned_id = 0
           /\ \A k \in 1..Len(hw_rx) :
                  /\ IsSetCanid(hw_rx[k])
                  /\ SubSeq(hw_rx[k].data, 2, 7) # canbus_uuid)
          => /\ is_shutdown' = is_shutdown
             /\ ~rebooted'
             /\ canbus_assigned_id' = 0]_vars

\* C13 witness: the device was shut down by a collision and, its tasks
\* still running, was rebooted by a REBOOT frame afterwards.
C13_Witness ==
    /\ is_shutdown /\ rebooted
    /\ last.op = "rx" /\ Len(last.frames) >= 1
    /\ events # <<>> /\ events[Len(events)].call = "reboot"

\* C19: the address last given to canbus_set_filter (0 before any call) is
\* canbus_assigned_id; and a run of the receive task on one SET_CANID
\* frame with this chip's UUID for the address it holds calls
\* canbus_set_filter not at all, sends one response [33, UUID, byte 7] and
\* leaves address and filter as they were.
C19_FilterConsistency ==
    /\ [](hw_filter = canbus_assigned_id)
    /\ [][(/\ last'.op = "rx" /\ last'.woken
           /\ Len(hw_rx) = 1
           /\ IsSetCanid(hw_rx[1])
           /\ SubSeq(hw_rx[1].data, 2, 7) = canbus_uuid
           /\ can_decode_id(hw_rx[1].data[8]) = canbus_assigned_id)
          => /\ UNCHANGED <<canbus_assigned_id, hw_filter>>
             /\ BusCalls(events') =
                    <<[call |-> "send", id |-> CANBUS_ID_ADMIN_RESP,
                       data |-> <<CANBUS_RESP_HAVE_CANID>> \o canbus_uuid
                                \o <<hw_rx[1].data[8]>>]>>]_vars

\* C19 witness: the chip was given the address it already held, after it
\* had lost an address in a collision and been given one again.
C19_Witness ==
    /\ OneFrameRun
    /\ IsSetCanid(last.frames[1])
    /\ SubSeq(last.frames[1].data, 2, 7) = canbus_uuid
    /\ last.pre_id # 0
    /\ can_decode_id(last.frames[1].data[8]) = last.pre_id
    /\ is_shutdown
    /\ hw_filter = last.pre_id
    /\ Len(BusCalls(events)) = 1

\* C18 as claimed: in every response frame, byte 7 is 0 exactly when the
\* tag is 32 and canbus_assigned_id is 0, and a frame with tag 33 never has
\* 0 in byte 7; and the encoded byte of a nonzero address is never 0, the
\* value that stands for no address.
C18_ZeroReserved ==
    /\ \A i \in 1..Len(events) :
           (events[i].call = "send" /\ events[i].id = CANBUS_ID_ADMIN_RESP) =>
               /\ (events[i].data[8] = 0) <=>
                      (/\ events[i].data[1] = CANBUS_RESP_NEED_CANID
                       /\ canbus_assigned_id = 0)
               /\ events[i].data[1] = CANBUS_RESP_HAVE_CANID =>
                      events[i].data[8] # 0
    /\ canbus_assigned_id # 0 => U8(can_encode_id(canbus_assigned_id)) # 0

(***************************************************************************)
(* SpecRetry: admin responses while the driver's transmit mailbox is busy. *)
(* The driver refuses up to MaxRetry sends, each as rejected (0) or as     *)
(* error (-1), before it accepts one; responses are due at start-up and    *)
(* after QUERY, QUERY_UNASSIGNED and SET_CANID frames.                     *)
(***************************************************************************)
MaxRetry == 2         \* sends the driver refuses in a row

RetryOutcomes ==
    UNION {[1..n -> {0, -1}] : n \in 1..MaxRetry}

RetryFrames ==
    {AdminFrame(CANBUS_CMD_QUERY_UNASSIGNED, SelfUuid, 0, 1),
     AdminFrame(CANBUS_CMD_QUERY, SelfUuid, 0, 8),
     AdminFrame(CANBUS_CMD_SET_CANID, SelfUuid, 5, 8),
     AdminFrame(CANBUS_CMD_SET_CANID, OtherUuid, 5, 8)}

RetryBusy == \E outs \in RetryOutcomes : HwTxBusy(outs)

RetryArrives == \E f \in RetryFrames : HwReceiveAdmin(f)

NextRetry == SetUuid \/ RetryBusy \/ RetryArrives \/ canbus_rx_task

SpecRetry == Init /\ [][NextRetry]_vars

\* the calls of canbus_send for an admin response among the calls of a step
IsRespAttempt(e) ==
    /\ e.call \in {"send", "send_refused"}
    /\ e.id = CANBUS_ID_ADMIN_RESP
RespAttempts(ev) == SelectSeq(ev, IsRespAttempt)

\* C17 as claimed: when a step that owes one response (canbus_set_uuid, or
\* a run of the receive task on one frame) has called canbus_send for it,
\* the last of these calls was accepted, exactly one was, so that one
\* response frame is on the bus, and every call passed the same 8 bytes: no
\* refused send, rejected or error, ends the retry.
C17_RetryUntilAccepted ==
    ((last.op = "set_uuid" \/ OneFrameRun) /\ RespAttempts(events) # <<>>) =>
        LET a == RespAttempts(events)
        IN  /\ a[Len(a)].call = "send"
            /\ Cardinality({i \in 1..Len(a) : a[i].call = "send"}) = 1
            /\ \A i \in 1..Len(a) : a[i].data = a[1].data /\ Len(a[i].data) = 8

(***************************************************************************)
(* SpecTxLive: the chunker under a hardware that refuses sends.  Two       *)
(* messages are enqueued; a run of the chunker has none, one or two sends  *)
(* accepted before one is refused.  Fairness: after a refusal the driver   *)
(* notifies the chunker again (its transmit interrupt, canbus_notify_tx),  *)
(* and of the runs of the woken chunker, which the scheduler keeps         *)
(* making, some have a send accepted.                                      *)
(***************************************************************************)
MaxLiveOffered == 38  \* bytes handed to console_sendf in a behaviour

LiveAssign == HwReceiveAdmin(AdminFrame(CANBUS_CMD_SET_CANID, SelfUuid, 5, 8))

LiveSendf ==
    /\ Len(offered) + 19 <= MaxLiveOffered
    /\ console_sendf(24, EncodedMsg(19))

LiveRefuse == \E failret \in {0, -1} : canbus_tx_task(0, failret)

LiveAccept ==
    /\ canbus_tx_wake
    /\ \E nacc \in {1, 2}, failret \in {0, -1} : canbus_tx_task(nacc, failret)

LiveWake ==
    /\ ~canbus_tx_wake
    /\ transmit_pos < transmit_max
    /\ canbus_notify_tx

NextLive ==
    \/ SetUuid
    \/ LiveAssign
    \/ canbus_rx_task
    \/ LiveSendf
    \/ LiveRefuse
    \/ LiveAccept
    \/ LiveWake

SpecTxLive ==
    Init /\ [][NextLive]_vars /\ WF_vars(LiveWake) /\ SF_vars(LiveAccept)

\* C14: a woken run of canbus_tx_task with an address advances
\* transmit_pos by exactly the bytes of the frames that were accepted,
\* which are the bytes at [transmit_pos, ...) in order, and leaves
\* transmit_max and the buffer alone: it stops at the first send that is
\* refused.  And when unsent bytes wait while the chip has an address, then
\* eventually transmit_pos = transmit_max, every byte handed over having
\* been sent once, in order (when none was dropped or discarded before).
C14_StopAndResume ==
    /\ [][(last'.op = "tx" /\ canbus_tx_wake /\ canbus_assigned_id # 0) =>
             /\ transmit_pos' = transmit_pos + Len(Flatten(events'))
             /\ Flatten(events') =
                    Slice(transmit_buf, transmit_pos, Len(Flatten(events')))
             /\ wire' = wire \o Flatten(events')
             /\ transmit_pos' <= transmit_max
             /\ UNCHANGED <<transmit_buf, transmit_max>>]_vars
    /\ (canbus_assigned_id # 0 /\ transmit_pos < transmit_max)
           ~> (/\ transmit_pos = transmit_max
               /\ (~dropped /\ ~discarded) => wire = offered)

\* C14 witness: both messages were enqueued before the first was sent, and
\* the last run sent the last 6 of the 38 bytes alone: every earlier run
\* stopped at a refused send.
C14_Witness ==
    /\ last.op = "tx" /\ last.woken
    /\ transmit_pos = MaxLiveOffered /\ transmit_max = MaxLiveOffered
    /\ wire = offered
    /\ Len(events) = 1 /\ Len(events[1].data) = 6

(***************************************************************************)
(* SpecRxLive: the receive pipeline of SpecRx under the scheduler, which   *)
(* keeps running a task that has been notified.                            *)
(***************************************************************************)

\* The step canbus_rx_task takes when it has been notified, told by the
\* entry values the step records in last (no other action records "rx").
RxWokenRun ==
    /\ uuid_set /\ ~rebooted
    /\ canbus_rx_wake
    /\ last' = [op |-> "rx", woken |-> TRUE, frames |-> hw_rx,
                pre_id |-> canbus_assigned_id, pre_rpos |-> receive_pos]

SpecRxLive == InitRx /\ [][NextRx]_vars /\ WF_last(RxWokenRun)

\* the message the dispatcher was given in the last step, <<>> if none
Dispatched ==
    IF events # <<>> /\ events[Len(events)].call = "dispatch"
    THEN events[Len(events)].data ELSE <<>>

\* C16: when a run of canbus_rx_task has a message of k bytes dispatched
\* from a buffer of n bytes, the n - k bytes behind it are at offset 0
\* afterwards, in order, receive_pos is n - k, and the task has notified
\* itself exactly when n - k > 0.  And when the second message is left in
\* the buffer behind the first one dispatched, it is eventually dispatched
\* too, whether or not another frame arrives.
C16_BoundaryHandling ==
    /\ [][(last'.op = "rx" /\ Dispatched' # <<>>) =>
             LET fd == events'[Len(events') - 1]
                 k == Len(Dispatched')
             IN  /\ fd.call = "find_and_dispatch"
                 /\ Dispatched' = SubSeq(fd.buf, 1, k)
                 /\ receive_pos' = fd.n - k
                 /\ Slice(receive_buf', 0, fd.n - k) = SubSeq(fd.buf, k + 1, fd.n)
                 /\ canbus_rx_wake' = (fd.n - k > 0)]_vars
    /\ (/\ Dispatched = SubSeq(RxMessages, 1, 11)
        /\ Slice(receive_buf, 0, receive_pos) = SubSeq(RxMessages, 12, 14))
           ~> (Dispatched = SubSeq(RxMessages, 12, 14) /\ receive_pos = 0)

\* C16 witness: the second message was dispatched by a run that read no
\* frame: the task had notified itself after the first message.
C16_Witness ==
    /\ last.op = "rx" /\ last.woken
    /\ last.frames = <<>>
    /\ last.pre_rpos = 3
    /\ Dispatched = SubSeq(RxMessages, 12, 14)
    /\ receive_pos = 0
    /\ ~canbus_rx_wake

====
